---- MODULE Spec2Model ----
(***************************************************************************)
(* Model of links_to_notes.py (Links to Notes for Obsidian v2.0): the      *)
(* per-record acquisition pipeline process_url_with_fallbacks, the main    *)
(* loop that classifies every record into a result bucket, and the pure    *)
(* helpers extract_meta, create_fallback_note, normalize_tags and          *)
(* decide_out_path.                                                        *)
(*                                                                         *)
(* A Python str is a sequence of one-character strings; Python's None is   *)
(* the sentinel None below, which no string equals.                        *)
(***************************************************************************)
EXTENDS FiniteSets, Integers, Sequences, TLC

VARIABLES
    items,      \* list returned by read_urls_from_csv_enhanced
    sleep_s,    \* args.sleep
    files,      \* paths that exist under out_dir
    results,    \* the four buckets of main
    idx,        \* number of records the main loop has taken
    pc,         \* position of the main loop / of process_url_with_fallbacks
    tier,       \* which try/except branch of process_url_with_fallbacks runs
    html,       \* the page that was fetched (live or from the archive)
    respUrl,    \* resp.url of the live fetch
    meta,       \* data["meta"] of the current record
    status,     \* local variable status of process_url_with_fallbacks
    fetchRes,   \* outcome of fetch_url for the current record
    snap,       \* outcome of try_wayback_machine for the current record
    extracted,  \* extract_meta was entered for the current record
    oserrors,   \* OSErrors caught or raised while resolving/writing
    returned,   \* history of the paths decide_out_path returned
    out_path,   \* local variable out_path of process_url_with_fallbacks
    delayed,    \* time.sleep ran since the last live fetch was issued
    gap,        \* what separated the current live fetch from the previous one
    outcome,    \* bucket the current record ended in, and what put it there
    faults,     \* filesystem and template errors the environment has raised
    tagIn,      \* argument of normalize_tags (pure-function specification)
    tagOut,     \* its result
    tagMode     \* which call site produced tagOut

vars == <<items, sleep_s, files, results, idx, pc, tier, html, respUrl, meta,
          status, fetchRes, snap, extracted, oserrors, returned, out_path,
          delayed, gap, outcome, faults, tagIn, tagOut, tagMode>>

pipeVars == <<items, sleep_s, files, results, idx, pc, tier, html, respUrl,
              meta, status, fetchRes, snap, extracted, oserrors, returned,
              out_path, delayed, gap, outcome, faults>>

tagVars == <<tagIn, tagOut, tagMode>>

(***************************************************************************)
(* Bounds of the model.                                                    *)
(***************************************************************************)
MaxItems == 2
MaxFaults == 2
MaxTags == 2
MaxTagLen == 2

(***************************************************************************)
(* Program constants.                                                      *)
(***************************************************************************)
MAX_FILENAME_LENGTH == 200
MAX_TITLE_LENGTH == 100
RetryTitleLength == 50
WordsPerMinute == 225
StatusForcelist == {429, 500, 502, 503, 504}

(***************************************************************************)
(* Strings.                                                                *)
(***************************************************************************)
None == <<"None">>

Truthy(s) == s # None /\ s # <<>>

Range(s) == {s[i] : i \in 1..Len(s)}

Rep(c, n) == [i \in 1..n |-> c]

Min(a, b) == IF a < b THEN a ELSE b

Prefix(s, n) == SubSeq(s, 1, Min(n, Len(s)))

Whitespace == {" "}

Lower(c) == IF c = "A" THEN "a" ELSE IF c = "B" THEN "b" ELSE c

LowerStr(s) == [i \in 1..Len(s) |-> Lower(s[i])]

RECURSIVE LStrip(_)
LStrip(s) ==
    IF s # <<>> /\ Head(s) \in Whitespace THEN LStrip(Tail(s)) ELSE s

RECURSIVE RStrip(_)
RStrip(s) ==
    IF s # <<>> /\ s[Len(s)] \in Whitespace
    THEN RStrip(SubSeq(s, 1, Len(s) - 1)) ELSE s

Strip(s) == RStrip(LStrip(s))

DigitChars == <<"0", "1", "2", "3", "4", "5", "6", "7", "8", "9">>

RECURSIVE Str(_)
Str(n) ==
    IF n < 10 THEN <<DigitChars[n + 1]>>
    ELSE Str(n \div 10) \o <<DigitChars[(n % 10) + 1]>>

(***************************************************************************)
(* slugify: lower-case, every run of characters outside [-a-z0-9] becomes  *)
(* one "-", runs of "-" collapse, leading and trailing "-" are removed.    *)
(***************************************************************************)
SlugKeep == {"a", "b", "x", "n", "o", "t", "-"} \cup Range(DigitChars)

SlugChar(c) == IF Lower(c) \in SlugKeep THEN Lower(c) ELSE "-"

RECURSIVE Squeeze(_)
Squeeze(s) ==
    IF Len(s) < 2 THEN s
    ELSE IF s[1] = "-" /\ s[2] = "-" THEN Squeeze(Tail(s))
    ELSE <<s[1]>> \o Squeeze(Tail(s))

RECURSIVE StripDash(_)
StripDash(s) ==
    IF s # <<>> /\ Head(s) = "-" THEN StripDash(Tail(s))
    ELSE IF s # <<>> /\ s[Len(s)] = "-"
    THEN StripDash(SubSeq(s, 1, Len(s) - 1))
    ELSE s

slugify(s) == StripDash(Squeeze([i \in 1..Len(s) |-> SlugChar(s[i])]))

(***************************************************************************)
(* normalize_tags: strip, drop blanks, drop exact repeats, keep order.     *)
(***************************************************************************)
RECURSIVE normalize_loop(_, _, _)
normalize_loop(tags, uniq, seen) ==
    IF tags = <<>> THEN uniq
    ELSE LET t == Strip(Head(tags)) IN
         IF t = <<>> THEN normalize_loop(Tail(tags), uniq, seen)
         ELSE IF t \notin seen
         THEN normalize_loop(Tail(tags), Append(uniq, t), seen \cup {t})
         ELSE normalize_loop(Tail(tags), uniq, seen)

RECURSIVE normalize_loop_nodedup(_, _, _)
normalize_loop_nodedup(tags, uniq, seen) ==
    IF tags = <<>> THEN uniq
    ELSE LET t == Strip(Head(tags)) IN
         IF t = <<>> THEN normalize_loop_nodedup(Tail(tags), uniq, seen)
         ELSE normalize_loop_nodedup(Tail(tags), Append(uniq, t), seen)

normalize_tags_nodedup(tags) == normalize_loop_nodedup(tags, <<>>, {})

normalize_tags(tags) == normalize_loop(tags, <<>>, {})

\* line 330: norm_tags = [t.strip().lower() for t in all_tags]
strip_lower(tags) == [i \in 1..Len(tags) |-> LowerStr(Strip(tags[i]))]

\* lines 329-331: the tags process_url_with_fallbacks stores in the metadata
merge_tags(metaTags, tags, csvTags) ==
    normalize_tags(strip_lower(metaTags \o tags \o csvTags))

(***************************************************************************)
(* Input data: URLs, titles, CSV rows, pages.                              *)
(***************************************************************************)
Url1 == <<"x", "/", "a">>
Url2 == <<"x", "/", "b">>
UrlCanonical == <<"x", "/", "c">>

TitleAB == <<"a", " ", "b">>
TitleDash == <<"A", "-", "B">>
TitleBlank == <<" ">>
\* 60 characters; its first 50 characters slugify to another base name
TitleLong == Rep("a", 30) \o <<" ">> \o Rep("b", 29)

\* dict.get(key, default)
DictGet(d, key, default) == IF key \in DOMAIN d THEN d[key] ELSE default

\* A row of csv.DictReader. A column the file lacks is no key of the row; a
\* row shorter than the header has None (DictReader's restval) for the
\* missing cells. "tags" holds the pieces of the tags cell after the split.
Rows ==
    { [url |-> Url1, tags |-> <<<<"a">>, <<"A">>, <<" ", "a">>>>],
      [url |-> Url2, tags |-> <<<<"b">>, <<" ">>>>, title |-> None] }

RECURSIVE SeqsUpTo(_, _)
SeqsUpTo(S, n) ==
    IF n = 0 THEN {<<>>}
    ELSE LET shorter == SeqsUpTo(S, n - 1) IN
         shorter \cup {Append(q, x) : q \in shorter, x \in S}

NonBlank(t) == t # <<>>

\* lines 382/386: [t.strip() for t in ... if t.strip()]
parse_tags(pieces) ==
    SelectSeq([i \in 1..Len(pieces) |-> Strip(pieces[i])], NonBlank)

\* lines 369-394, one row that has a URL
read_row(row) ==
    LET tags == parse_tags(DictGet(row, "tags", <<>>)) IN
    [ url |-> Strip(row.url),
      tags |-> normalize_tags(tags),
      csv_row |-> [ title |-> DictGet(row, "title", <<>>),
                    tags |-> tags ] ]

HasUrl(row) == Strip(row.url) # <<>>

read_urls_from_csv_enhanced(rows) ==
    LET kept == SelectSeq(rows, HasUrl) IN
    [i \in 1..Len(kept) |-> read_row(kept[i])]

\* Dates are ISO strings. DateNow is utcnow() of the run.
DatePublished == <<"2", "0", "2", "0", "-", "0", "1", "-", "1", "5">>
DateNow == <<"2", "0", "2", "6", "-", "1", "1", "-", "0", "4">>
DateGarbled == <<"?">>

\* dateparser.parse(...).date().isoformat(), or None
parse_date(d) == IF d \in {DatePublished, DateNow} THEN d ELSE None

\* What extract_meta reads in a page. words is the number of \w+ matches in
\* the readable text; unparseable: readability's Document.summary() raises
\* (an empty body, for one).
NoPage == [kind |-> "none"]

Page(og, doc, link, ogurl, date, words, bad) ==
    [ kind |-> "page", ogTitle |-> og, docTitle |-> doc,
      linkCanonical |-> link, ogUrl |-> ogurl, date |-> date,
      words |-> words, unparseable |-> bad ]

PageBare == Page(None, None, None, None, None, 0, FALSE)
PageFull ==
    Page(TitleDash, TitleAB, UrlCanonical, None, DatePublished, 112, FALSE)
PageBlankOg ==
    Page(TitleBlank, TitleLong, None, TitleBlank, DateGarbled, 338, FALSE)
PageEmpty == Page(None, None, None, None, None, 0, TRUE)

Pages == {PageBare, PageFull, PageBlankOg, PageEmpty}

Max(a, b) == IF a > b THEN a ELSE b

\* Python's round(n / d): to nearest, ties to even
Round(n, d) ==
    LET q == n \div d
        r == n % d
    IN  IF 2 * r < d THEN q
        ELSE IF 2 * r > d THEN q + 1
        ELSE IF q % 2 = 0 THEN q ELSE q + 1

reading_time(word_count) == Max(1, Round(word_count, WordsPerMinute))

NoMeta == [kind |-> "none"]

\* lines 69-170; called only on a page Document.summary() can parse
extract_meta(page, url) ==
    LET link == IF Truthy(page.linkCanonical)
                THEN Strip(page.linkCanonical) ELSE None
        canonical == IF Truthy(page.ogUrl) /\ Strip(page.ogUrl) # <<>>
                     THEN Strip(page.ogUrl) ELSE link
        og == IF Truthy(page.ogTitle) THEN Strip(page.ogTitle) ELSE None
        title == IF ~Truthy(og) /\ Truthy(page.docTitle)
                 THEN Strip(page.docTitle) ELSE og
    IN  [ kind |-> "meta",
          title |-> IF Truthy(title) THEN title ELSE url,
          published_date |-> IF Truthy(page.date) THEN parse_date(page.date)
                             ELSE None,
          source_url |-> IF Truthy(canonical) THEN canonical ELSE url,
          word_count |-> page.words,
          reading_time_min |-> reading_time(page.words),
          tags |-> <<>> ]

\* lines 196-216
create_fallback_note(url, csv_metadata) ==
    [ kind |-> "meta",
      title |-> DictGet(csv_metadata, "title", url),
      published_date |-> None,
      source_url |-> url,
      word_count |-> 0,
      reading_time_min |-> 0,
      tags |-> DictGet(csv_metadata, "tags", <<>>) ]

(***************************************************************************)
(* decide_out_path. A path is a folder and a file name.                    *)
(***************************************************************************)
MdSuffix == <<".", "m", "d">>

\* lines 255-257: <<year, month>> of the reference date
out_folder(m) ==
    LET ref_iso == IF Truthy(m.published_date) THEN m.published_date
                   ELSE DateNow
        dt == IF parse_date(ref_iso) # None THEN parse_date(ref_iso)
              ELSE DateNow
    IN  <<SubSeq(dt, 1, 4), SubSeq(dt, 6, 7)>>

out_base(m) ==
    LET t0 == IF Truthy(m.title) THEN m.title ELSE <<"n", "o", "t", "a">>
        t == IF Len(t0) > MAX_TITLE_LENGTH THEN Prefix(t0, MAX_TITLE_LENGTH)
             ELSE t0
        b0 == slugify(t)
        b == IF Len(b0) > MAX_FILENAME_LENGTH
             THEN Prefix(b0, MAX_FILENAME_LENGTH) ELSE b0
    IN  IF b = <<>> \/ b = <<"-">> THEN <<"n", "o", "t", "a">> ELSE b

file_name(base, n) ==
    IF n = 1 THEN base \o MdSuffix ELSE base \o <<"-">> \o Str(n) \o MdSuffix

PathOf(folder, base, n) == [folder |-> folder, name |-> file_name(base, n)]

\* the suffix the loop of lines 270-280 stops at (1: no suffix)
out_index_overwrite(fs, folder, base) == 1

out_index(fs, folder, base) ==
    IF PathOf(folder, base, 1) \notin fs THEN 1
    ELSE CHOOSE i \in 2..(Cardinality(fs) + 2) :
            /\ PathOf(folder, base, i) \notin fs
            /\ \A j \in 2..(i - 1) : PathOf(folder, base, j) \in fs

decide_out_path(fs, m) ==
    PathOf(out_folder(m), out_base(m),
           out_index(fs, out_folder(m), out_base(m)))

(***************************************************************************)
(* The network.                                                            *)
(***************************************************************************)
\* What the remote host can answer to the GET of fetch_url.
FetchReplies(url) ==
    {[kind |-> "response", status |-> 200, page |-> p, url |-> u] :
        p \in Pages, u \in {url}}
    \cup {[kind |-> "response", status |-> s] : s \in {403, 404, 500}}
    \cup {[kind |-> "ConnectionError"], [kind |-> "Timeout"]}

\* lines 50-67. A status of the retry list ends, once the retries are used
\* up, in RetryError; raise_for_status raises HTTPError for any other 4xx/5xx.
fetch_url(reply) ==
    IF reply.kind # "response" THEN [exc |-> reply.kind, status_code |-> 0]
    ELSE IF reply.status \in StatusForcelist
    THEN [exc |-> "RetryError", status_code |-> 0]
    ELSE IF reply.status >= 400
    THEN [exc |-> "HTTPError", status_code |-> reply.status]
    ELSE [exc |-> "none", status_code |-> 0]

\* What archive.org can answer to try_wayback_machine.
ArchiveReplies ==
    {[kind |-> "no_snapshot"], [kind |-> "error"]}
    \cup {[kind |-> "snapshot", page |-> p] : p \in Pages}

\* lines 172-194: the snapshot's text, or None
try_wayback_machine(reply) ==
    IF reply.kind = "snapshot" THEN reply.page ELSE NoPage

(***************************************************************************)
(* main: the loop of lines 434-443.                                        *)
(***************************************************************************)
Buckets == {"success", "archived", "fallback", "failed"}

bucket_add(res, bucket, rec, val) ==
    [res EXCEPT ![bucket] = Append(@, [rec |-> rec, val |-> val])]

NoOutcome == [bucket |-> "none", cause |-> "none"]

NoFetch == [exc |-> "unset", status_code |-> 0]

\* lines 441-443 with the exception dropped instead of recorded
main_except_lost(cause) ==
    /\ results' = results
    /\ outcome' = [bucket |-> "failed", cause |-> cause]
    /\ pc' = "loop"

\* lines 441-443: an exception left process_url_with_fallbacks
main_except(cause) ==
    /\ results' = bucket_add(results, "failed", idx, items[idx].url)
    /\ outcome' = [bucket |-> "failed", cause |-> cause]
    /\ pc' = "loop"

\* process_url_with_fallbacks is left: its frame (html, resp, data, status,
\* out_path) is gone
leave ==
    /\ tier' = "none"
    /\ html' = NoPage
    /\ respUrl' = None
    /\ meta' = NoMeta
    /\ status' = "none"
    /\ out_path' = None
    /\ extracted' = FALSE

CsvFiles == SeqsUpTo(Rows, MaxItems) \ {<<>>}

Init ==
    /\ items \in {read_urls_from_csv_enhanced(csv) : csv \in CsvFiles}
    /\ sleep_s \in {0, 1}
    /\ files = {}
    /\ results = [b \in Buckets |-> <<>>]
    /\ idx = 0
    /\ pc = "loop"
    /\ tier = "none"
    /\ html = NoPage
    /\ respUrl = None
    /\ meta = NoMeta
    /\ status = "none"
    /\ fetchRes = NoFetch
    /\ snap = "none"
    /\ extracted = FALSE
    /\ oserrors = 0
    /\ returned = <<>>
    /\ out_path = None
    /\ delayed = FALSE
    /\ gap = "first"
    /\ outcome = NoOutcome
    /\ faults = 0
    /\ tagIn = <<>>
    /\ tagOut = <<>>
    /\ tagMode = "off"

\* line 434 and line 303: the loop takes the next record and the live fetch
\* of process_url_with_fallbacks is issued
NextItem ==
    /\ pc = "loop"
    /\ idx < Len(items)
    /\ idx' = idx + 1
    /\ pc' = "fetching"
    /\ gap' = IF idx = 0 THEN "first"
              ELSE IF delayed THEN "delayed" ELSE "undelayed"
    /\ delayed' = FALSE
    /\ oserrors' = 0
    /\ outcome' = NoOutcome
    /\ fetchRes' = NoFetch
    /\ snap' = "none"
    /\ UNCHANGED <<items, sleep_s, files, results, returned, tier, html,
                   respUrl, meta, status, extracted, out_path, faults,
                   tagVars>>

\* lines 445-521: reports and ZIP, after the loop
Finish ==
    /\ pc = "loop"
    /\ idx = Len(items)
    /\ pc' = "done"
    /\ UNCHANGED <<items, sleep_s, files, results, idx, tier, html, respUrl,
                   meta, status, fetchRes, snap, extracted, oserrors,
                   returned, out_path, delayed, gap, outcome, faults,
                   tagVars>>

(***************************************************************************)
(* process_url_with_fallbacks, lines 299-348.                              *)
(***************************************************************************)
\* line 303 returns
FetchReturns ==
    /\ pc = "fetching"
    /\ \E reply \in FetchReplies(items[idx].url) :
        /\ fetch_url(reply).exc = "none"
        /\ fetchRes' = fetch_url(reply)
        /\ html' = reply.page
        /\ respUrl' = reply.url
    /\ tier' = "live"
    /\ pc' = "extracting"
    /\ UNCHANGED <<items, sleep_s, files, results, idx, meta, status, snap,
                   extracted, oserrors, returned, out_path, delayed, gap,
                   outcome, faults, tagVars>>

\* line 303 raises HTTPError: lines 306-320
FetchRaisesHTTPError ==
    /\ pc = "fetching"
    /\ \E reply \in FetchReplies(items[idx].url) :
        /\ fetch_url(reply).exc = "HTTPError"
        /\ fetchRes' = fetch_url(reply)
        /\ IF fetch_url(reply).status_code = 403
           THEN /\ pc' = "archiving"
                /\ UNCHANGED <<results, outcome>>
           ELSE main_except("fetch")
    /\ UNCHANGED <<items, sleep_s, files, idx, tier, html, respUrl, meta,
                   status, snap, extracted, oserrors, returned, out_path,
                   delayed, gap, faults, tagVars>>

\* line 303 raises another exception: line 321
FetchRaisesOther ==
    /\ pc = "fetching"
    /\ \E reply \in FetchReplies(items[idx].url) :
        /\ fetch_url(reply).exc \notin {"none", "HTTPError"}
        /\ fetchRes' = fetch_url(reply)
    /\ pc' = "building_fallback"
    /\ UNCHANGED <<items, sleep_s, files, results, idx, tier, html, respUrl,
                   meta, status, snap, extracted, oserrors, returned,
                   out_path, delayed, gap, outcome, faults, tagVars>>

\* lines 304-305; an exception of extract_meta is caught at line 321
ExtractLive ==
    /\ pc = "extracting"
    /\ tier = "live"
    /\ extracted' = TRUE
    /\ IF html.unparseable
       THEN /\ pc' = "building_fallback"
            /\ UNCHANGED <<meta, status>>
       ELSE /\ meta' = extract_meta(html, respUrl)
            /\ status' = "success"
            /\ pc' = "tagging"
    /\ UNCHANGED <<items, sleep_s, files, results, idx, tier, html, respUrl,
                   fetchRes, snap, oserrors, returned, out_path, delayed,
                   gap, outcome, faults, tagVars>>

\* lines 309-311: a snapshot came back
ArchiveFound ==
    /\ pc = "archiving"
    /\ \E reply \in ArchiveReplies :
        /\ try_wayback_machine(reply) # NoPage
        /\ html' = try_wayback_machine(reply)
    /\ snap' = "found"
    /\ tier' = "archive"
    /\ pc' = "extracting"
    /\ UNCHANGED <<items, sleep_s, files, results, idx, respUrl, meta,
                   status, fetchRes, extracted, oserrors, returned,
                   out_path, delayed, gap, outcome, faults, tagVars>>

\* lines 309-310, 315: no snapshot
ArchiveMissing ==
    /\ pc = "archiving"
    /\ \E reply \in ArchiveReplies : try_wayback_machine(reply) = NoPage
    /\ snap' = "missing"
    /\ pc' = "building_fallback"
    /\ UNCHANGED <<items, sleep_s, files, results, idx, tier, html, respUrl,
                   meta, status, fetchRes, extracted, oserrors, returned,
                   out_path, delayed, gap, outcome, faults, tagVars>>

\* lines 312-314, inside the handler of HTTPError: an exception of
\* extract_meta leaves the function
ExtractArchived ==
    /\ pc = "extracting"
    /\ tier = "archive"
    /\ IF html.unparseable
       THEN /\ main_except("extract")
            /\ leave
       ELSE /\ extracted' = TRUE
            /\ meta' = [extract_meta(html, items[idx].url)
                            EXCEPT !.source_url = items[idx].url]
            /\ status' = "archived"
            /\ pc' = "tagging"
            /\ UNCHANGED <<results, outcome, tier, html, respUrl, out_path>>
    /\ UNCHANGED <<items, sleep_s, files, idx, fetchRes, snap, oserrors,
                   returned, delayed, gap, faults, tagVars>>

\* lines 316-318 and 322-324
BuildFallback ==
    /\ pc = "building_fallback"
    /\ meta' = create_fallback_note(items[idx].url, items[idx].csv_row)
    /\ status' = "fallback"
    /\ pc' = "tagging"
    /\ UNCHANGED <<items, sleep_s, files, results, idx, tier, html, respUrl,
                   fetchRes, snap, extracted, oserrors, returned, out_path,
                   delayed, gap, outcome, faults, tagVars>>

\* lines 327-334: the tags are merged and the note is rendered; reading or
\* rendering a custom template can raise
TagAndRender ==
    /\ pc = "tagging"
    /\ \E rendered \in {TRUE} \cup {FALSE : k \in 1..(MaxFaults - faults)} :
        IF rendered
        THEN /\ meta' = [meta EXCEPT !.tags =
                            merge_tags(meta.tags, items[idx].tags,
                                DictGet(items[idx].csv_row, "tags", <<>>))]
             /\ pc' = "resolving_path"
             /\ UNCHANGED <<results, outcome, faults, tier, html, respUrl,
                            status, out_path, extracted>>
        ELSE /\ faults' = faults + 1
             /\ main_except("render")
             /\ leave
    /\ UNCHANGED <<items, sleep_s, files, idx, fetchRes, snap, oserrors,
                   returned, delayed, gap, tagVars>>

\* What the filesystem can do to one decide_out_path + write_text: both
\* work, or write_text raises OSError before or after it created the file.
FsErrors == {"write_oserror", "write_oserror_created"}

FsOutcomes(used) == {"ok"} \cup (IF used < MaxFaults THEN FsErrors ELSE {})

\* lines 337-338 (and 342-343) on the files fs and metadata m: the files
\* afterwards, the path decide_out_path returned, and the history of
\* returned paths
resolve_and_write(fs, hist, m, o) ==
    LET p == decide_out_path(fs, m)
        folder == out_folder(m)
        base == out_base(m)
        created == o \in {"ok", "write_oserror_created"}
    IN  [ files |-> IF created THEN fs \cup {p} ELSE fs,
          returned |-> Append(hist,
               [ folder |-> folder, base |-> base,
                 n |-> out_index(fs, folder, base),
                 fresh |-> p \notin fs, created |-> created ]),
          out_path |-> p,
          ok |-> o = "ok" ]

\* lines 345-348 and 437-438: the delay, the return, the bucket
sleep_and_return(path) ==
    /\ delayed' = (sleep_s > 0)
    /\ results' = bucket_add(results, status, idx, path)
    /\ outcome' = [bucket |-> status, cause |-> "returned"]
    /\ pc' = "loop"

\* lines 336-348: the first attempt; on OSError the title is cut to 50
\* characters (None[:50] raises TypeError) and path and write are redone,
\* and an exception of that second attempt leaves the function
WriteAndReturn ==
    /\ pc = "resolving_path"
    /\ \E o1 \in FsOutcomes(faults) :
        LET a1 == resolve_and_write(files, returned, meta, o1) IN
        IF a1.ok
        THEN /\ files' = a1.files
             /\ returned' = a1.returned
             /\ sleep_and_return(a1.out_path)
             /\ UNCHANGED <<oserrors, faults>>
        ELSE IF meta.title = None
        THEN /\ files' = a1.files
             /\ returned' = a1.returned
             /\ oserrors' = 1
             /\ faults' = faults + 1
             /\ main_except("truncate")
             /\ UNCHANGED delayed
        ELSE \E o2 \in FsOutcomes(faults + 1) :
            LET m2 == [meta EXCEPT !.title = Prefix(@, RetryTitleLength)]
                a2 == resolve_and_write(a1.files, a1.returned, m2, o2)
            IN  /\ files' = a2.files
                /\ returned' = a2.returned
                /\ IF a2.ok
                   THEN /\ oserrors' = 1
                        /\ faults' = faults + 1
                        /\ sleep_and_return(a2.out_path)
                   ELSE /\ oserrors' = 2
                        /\ faults' = faults + 2
                        /\ main_except("oserror")
                        /\ UNCHANGED delayed
    /\ leave
    /\ UNCHANGED <<items, sleep_s, idx, fetchRes, snap, gap, tagVars>>

Next ==
    \/ NextItem
    \/ FetchReturns
    \/ FetchRaisesHTTPError
    \/ FetchRaisesOther
    \/ ExtractLive
    \/ ArchiveFound
    \/ ArchiveMissing
    \/ ExtractArchived
    \/ BuildFallback
    \/ TagAndRender
    \/ WriteAndReturn
    \/ Finish

Spec == Init /\ [][Next]_vars

(***************************************************************************)
(* normalize_tags as a pure function: the specification SpecTags draws the *)
(* tag list from a bounded set and applies the function the way each of    *)
(* its two call sites does.                                                *)
(***************************************************************************)
TagChars == {"a", "A", " "}

TagStrings == SeqsUpTo(TagChars, MaxTagLen)

TagLists == SeqsUpTo(TagStrings, MaxTags)

InitTags ==
    /\ tagIn \in TagLists
    /\ tagOut = <<>>
    /\ tagMode = "input"
    /\ items = <<>>
    /\ sleep_s = 0
    /\ files = {}
    /\ results = [b \in Buckets |-> <<>>]
    /\ idx = 0
    /\ pc = "reading_csv"
    /\ tier = "none"
    /\ html = NoPage
    /\ respUrl = None
    /\ meta = NoMeta
    /\ status = "none"
    /\ fetchRes = NoFetch
    /\ snap = "none"
    /\ extracted = FALSE
    /\ oserrors = 0
    /\ returned = <<>>
    /\ out_path = None
    /\ delayed = FALSE
    /\ gap = "first"
    /\ outcome = NoOutcome
    /\ faults = 0

\* line 394: normalize_tags(tags)
NormalizeTags ==
    /\ tagMode = "input"
    /\ tagOut' = normalize_tags(tagIn)
    /\ tagMode' = "normalize_tags"
    /\ UNCHANGED <<tagIn, pipeVars>>

\* lines 327-331: the tags of the page or of the fallback note, the tags of
\* the record and the tags of the CSV row, lower-cased and then normalised
MergeTags ==
    /\ tagMode = "input"
    /\ \E metaTags \in {<<>>, parse_tags(tagIn)} :
        tagOut' = merge_tags(metaTags, normalize_tags(parse_tags(tagIn)),
                             parse_tags(tagIn))
    /\ tagMode' = "merge_tags"
    /\ UNCHANGED <<tagIn, pipeVars>>

NextTags ==
    \/ NormalizeTags
    \/ MergeTags

SpecTags == InitTags /\ [][NextTags]_vars

(***************************************************************************)
(* Properties.                                                             *)
(***************************************************************************)
Ended == pc \in {"loop", "done"}

FetchFailed == fetchRes.exc \notin {"unset", "none"}

\* C1: a record whose live fetch failed with anything but HTTP 403 does not
\* end in "failed" because of the fetch, and when the function returns for
\* it the record is in the "fallback" bucket.
C1_FetchFailureFallsBack ==
    (Ended /\ FetchFailed /\ fetchRes.status_code # 403) =>
        /\ outcome.cause # "fetch"
        /\ (outcome.cause = "returned" => outcome.bucket = "fallback")

BucketEntries ==
    UNION {{<<b, i>> : i \in 1..Len(results[b])} : b \in Buckets}

BucketTotal ==
    Len(results["success"]) + Len(results["archived"])
        + Len(results["fallback"]) + Len(results["failed"])

\* C2: between two records and after the loop, every record taken so far
\* is in exactly one bucket exactly once, the four bucket sizes add up to
\* the number of records taken, and the loop ends only when every input
\* record was taken; while a record is processed, it is in no bucket yet.
C2_EveryRecordInOneBucket ==
    /\ Ended =>
        /\ \A r \in 1..idx :
            Cardinality({e \in BucketEntries :
                            results[e[1]][e[2]].rec = r}) = 1
        /\ BucketTotal = idx
    /\ ~Ended => BucketTotal = idx - 1
    /\ pc = "done" => BucketTotal = Len(items)

\* C2, witness: the first of two records failed with an exception and the
\* second one was processed into another bucket.
C2_FailedThenProcessed ==
    /\ pc = "done"
    /\ Len(items) = 2
    /\ \E i \in 1..Len(results["failed"]) : results["failed"][i].rec = 1
    /\ \E b \in Buckets \ {"failed"} :
        \E i \in 1..Len(results[b]) : results[b][i].rec = 2

\* C3: the title of every metadata record is a non-empty string.
C3_TitleNonEmpty == meta.kind = "meta" => Truthy(meta.title)

SameBase(i, j) ==
    /\ returned[i].folder = returned[j].folder
    /\ returned[i].base = returned[j].base

WrittenNotes ==
    {e \in BucketEntries : e[1] # "failed"}

\* C4, as amended: every path decide_out_path returns is the path of no
\* existing file; a call for the same folder and base name made after an
\* earlier returned path was created returns a strictly larger suffix; and
\* no two written notes have the same path.
C4_NoOverwrite ==
    /\ \A j \in 1..Len(returned) :
        /\ returned[j].fresh
        /\ \A i \in 1..(j - 1) :
            (SameBase(i, j) /\ returned[i].created) =>
                returned[i].n < returned[j].n
    /\ \A e, f \in WrittenNotes :
        results[e[1]][e[2]].val = results[f[1]][f[2]].val => e = f

\* C4, witness: a third path of the same folder and base name was returned
\* after the first two had been created.
C4_ThirdSuffix ==
    \E j \in 1..Len(returned) :
        /\ returned[j].n = 3
        /\ \E i \in 1..(j - 1) : SameBase(i, j) /\ returned[i].created

\* C4, as stated: successive calls of decide_out_path for the same folder
\* and base name return pairwise distinct, increasing suffixes.
C4_DistinctIncreasing ==
    \A j \in 1..Len(returned) :
        \A i \in 1..(j - 1) :
            SameBase(i, j) => returned[i].n < returned[j].n

\* C5: a record for which extract_meta was entered goes on to tagging with
\* status "success" (live page) or "archived" (snapshot); it is never
\* handed to the fallback tier and never fails because of the extraction.
C5_ExtractionNeverFails ==
    /\ extracted =>
        /\ pc \in {"tagging", "resolving_path"}
        /\ status = (IF tier = "live" THEN "success" ELSE "archived")
    /\ outcome.cause # "extract"

\* C6: a record whose live fetch failed with HTTP 403 carries the requested
\* URL as source_url, is "archived" when a snapshot came back and
\* "fallback" with word_count 0 when none did, and does not fail because
\* of the fetch or of the snapshot.
C6_ForbiddenStillProduced ==
    fetchRes.status_code = 403 =>
        /\ pc = "resolving_path" =>
            /\ meta.source_url = items[idx].url
            /\ snap = "found" => status = "archived"
            /\ snap = "missing" =>
                (status = "fallback" /\ meta.word_count = 0)
        /\ Ended =>
            /\ outcome.cause \notin {"fetch", "extract"}
            /\ outcome.cause = "returned" =>
                outcome.bucket =
                    (IF snap = "found" THEN "archived" ELSE "fallback")

Stripped(tags) == [i \in 1..Len(tags) |-> Strip(tags[i])]

FirstAt(x, s) ==
    CHOOSE i \in 1..Len(s) : s[i] = x /\ \A j \in 1..(i - 1) : s[j] # x

NoBlankEntry(out) ==
    \A i \in 1..Len(out) : out[i] # <<>> /\ Strip(out[i]) = out[i]

NoFoldDuplicate(out) ==
    \A i, j \in 1..Len(out) :
        LowerStr(out[i]) = LowerStr(out[j]) => i = j

InFirstSeenOrder(in, out) ==
    /\ \A i \in 1..Len(out) : out[i] \in Range(Stripped(in))
    /\ \A i, j \in 1..Len(out) :
        i < j => FirstAt(out[i], Stripped(in)) < FirstAt(out[j], Stripped(in))

\* C7, as amended: normalize_tags returns the distinct non-blank stripped
\* entries of its argument, each once, in first-seen order, comparing them
\* exactly (entries that differ only in case are all kept); the tags
\* process_url_with_fallbacks stores, lower-cased before the call, have no
\* blank entry and no two entries equal after case-folding.
C7_ExactDedupInOrder ==
    /\ tagMode = "normalize_tags" =>
        /\ NoBlankEntry(tagOut)
        /\ InFirstSeenOrder(tagIn, tagOut)
        /\ Range(tagOut) = Range(Stripped(tagIn)) \ {<<>>}
    /\ tagMode = "merge_tags" =>
        /\ NoBlankEntry(tagOut)
        /\ NoFoldDuplicate(tagOut)

\* C7, witness: normalize_tags was given an entry with surrounding
\* whitespace and dropped a repeated entry.
C7_RepeatDropped ==
    /\ tagMode = "normalize_tags"
    /\ Len(tagIn) = 2
    /\ Len(tagOut) = 1
    /\ tagIn[1] # <<>>
    /\ tagIn[2] # Strip(tagIn[2])
    /\ Strip(tagIn[2]) # <<>>

\* C7, as stated: normalize_tags returns no blank entry and no two entries
\* equal after case-folding, in first-seen order.
C7_CaseFoldedDedup ==
    tagMode = "normalize_tags" =>
        /\ NoBlankEntry(tagOut)
        /\ NoFoldDuplicate(tagOut)
        /\ InFirstSeenOrder(tagIn, tagOut)

\* C8: in every metadata record the reading time is
\* max(1, round(word_count / 225)) when word_count > 0 and 0 when
\* word_count = 0.
C8_ReadingTimeConsistent ==
    meta.kind = "meta" =>
        meta.reading_time_min =
            (IF meta.word_count > 0
             THEN Max(1, Round(meta.word_count, WordsPerMinute))
             ELSE 0)

\* C9: a record whose first resolve-and-write raised OSError got exactly
\* one second attempt: either that attempt worked and the function
\* returned, or it raised too and the record is in "failed".
C9_OneRetry ==
    \/ oserrors = 0
    \/ oserrors = 1 /\ outcome.cause = "returned"
    \/ oserrors = 2 /\ outcome.bucket = "failed"

\* C10: with a positive delay, no live fetch is issued without time.sleep
\* having run since the previous record's live fetch.
C10_DelayBetweenRecords == sleep_s > 0 => gap # "undelayed"

====
